---- MODULE Spec2Model ----
(***************************************************************************)
(* The risk scoring and action-plan pipeline of RetailChurnAnalyzer        *)
(* (src/src/churn_analyzer.py), driven as src/src/main.py drives it:       *)
(*   analyze_customer_behavior -> identify_risk_factors /                  *)
(*   generate_segment_recommendations -> create_action_plan ->             *)
(*   generate_summary.                                                     *)
(*                                                                         *)
(* Numbers.  Amounts are whole dollars.  A pandas/numpy float is a record  *)
(* [k, v]: k = "num" with v the value in the unit stated at the field,     *)
(* or k = "nan", "inf", "-inf" (v = 0).  Units:                            *)
(*   total_spend, estimated_cost           dollars                         *)
(*   total_revenue_at_risk, avg_spend      cents      (np.round(.., 2))    *)
(*   potential_savings                     1/10000 dollar (not rounded)    *)
(*   percentage, roi                       tenths of a percent             *)
(*                                                    (np.round(.., 1))    *)
(* Dates and the wall clock are whole days.                                *)
(***************************************************************************)
EXTENDS Integers, Sequences, FiniteSets

VARIABLES
    transactions_df,   \* the ledger: rows [customer_id, transaction_date, amount, returns]
    customer_df,       \* the roster: rows [customer_id, segment]
    clock,             \* the wall clock that pd.Timestamp.now() reads
    done,              \* the stages of the current run that have returned
    error,             \* the exception that ended the current run, or "none"
    customer_metrics,  \* result of analyze_customer_behavior
    risk_factors,      \* result of identify_risk_factors
    recommendations,   \* result of generate_segment_recommendations
    action_plan,       \* result of create_action_plan
    summary            \* result of generate_summary

vars == <<transactions_df, customer_df, clock, done, error, customer_metrics,
          risk_factors, recommendations, action_plan, summary>>

(***************************************************************************)
(* Bounds of the model and the input domains.                              *)
(***************************************************************************)
MaxRows == 3

CustomerIds == {1, 2, 3}

\* transaction dates and wall-clock instants, in days: the recency of a
\* purchase ranges over 30, 31, 60, 61, on both sides of the thresholds
Dates == {0, 30}

Clocks == {60, 61}

\* a customer's total_spend is a sum of these: 500 = 200 + 300, and three
\* purchases can sum to a number that 3 does not divide
Amounts == {200, 300}

ReturnCounts == {0, 1}

NullSegment == "NaN"

LedgerRows ==
    [customer_id : CustomerIds, transaction_date : Dates,
     amount : Amounts, returns : ReturnCounts]

\* the roster keys customer_id; customer 3 is never on the roster
Rosters ==
    { <<[customer_id |-> 1, segment |-> "High Value"]>>,
      <<[customer_id |-> 1, segment |-> "High Value"],
        [customer_id |-> 2, segment |-> "New"]>> }

(***************************************************************************)
(* Float arithmetic.                                                       *)
(***************************************************************************)
Num(v) == [k |-> "num", v |-> v]

NaN == [k |-> "nan", v |-> 0]

PosInf == [k |-> "inf", v |-> 0]

NegInf == [k |-> "-inf", v |-> 0]

\* np.round: the nearest integer to num / den, a half going to the even one
RoundHalfEven(num, den) ==
    LET q == num \div den
        r == num % den
    IN  IF 2 * r < den THEN q
        ELSE IF 2 * r > den THEN q + 1
        ELSE IF q % 2 = 0 THEN q ELSE q + 1

\* numpy division then np.round: a zero divisor gives nan or +-inf, no exception
RoundedQuotient(num, den) ==
    IF den = 0
    THEN IF num = 0 THEN NaN ELSE IF num > 0 THEN PosInf ELSE NegInf
    ELSE Num(RoundHalfEven(num, den))

RECURSIVE SumSeq(_)
SumSeq(s) == IF s = <<>> THEN 0 ELSE Head(s) + SumSeq(Tail(s))

RECURSIVE MaxSeq(_)
MaxSeq(s) ==
    IF Len(s) = 1 THEN Head(s)
    ELSE LET m == MaxSeq(Tail(s)) IN IF Head(s) > m THEN Head(s) ELSE m

RECURSIVE Insert(_, _)
Insert(x, s) ==
    IF s = <<>> THEN <<x>>
    ELSE IF x <= Head(s) THEN <<x>> \o s
    ELSE <<Head(s)>> \o Insert(x, Tail(s))

RECURSIVE SortAsc(_)
SortAsc(s) == IF s = <<>> THEN <<>> ELSE Insert(Head(s), SortAsc(Tail(s)))

\* df[name]; df[mask], the rows that satisfy a mask in order, is SelectSeq
Column(df, name) == [i \in DOMAIN df |-> df[i][name]]

(***************************************************************************)
(* analyze_customer_behavior                                               *)
(***************************************************************************)
\* the group keys of groupby('customer_id'), ascending
RECURSIVE GroupKeys(_)
GroupKeys(ids) ==
    IF ids = {} THEN <<>>
    ELSE LET c == CHOOSE x \in ids : \A y \in ids : x <= y
         IN  <<c>> \o GroupKeys(ids \ {c})

\* (pd.Timestamp.now() - x.max()).days
DaysSince(now, last) == now - last

\* one row per group: .agg({'transaction_date': ..., 'amount': [count, sum, mean],
\* 'returns': 'sum'}); avg_purchase is the mean as the fraction <<sum, count>>
\* in lowest terms
RECURSIVE Gcd(_, _)
Gcd(a, b) == IF b = 0 THEN a ELSE Gcd(b, a % b)

Mean(s) ==
    LET t == SumSeq(s)
        g == Gcd(t, Len(s))
    IN  <<t \div g, Len(s) \div g>>

\* variant: purchase_count as the number of distinct transaction dates
\* ('nunique' in place of 'count')
AggregateGroupUniqueDates(df, c, now) ==
    LET rows == SelectSeq(df, LAMBDA r : r.customer_id = c)
    IN  [customer_id         |-> c,
         days_since_purchase |-> DaysSince(now, MaxSeq(Column(rows, "transaction_date"))),
         purchase_count      |-> Cardinality({ rows[i].transaction_date : i \in DOMAIN rows }),
         total_spend         |-> SumSeq(Column(rows, "amount")),
         avg_purchase        |-> Mean(Column(rows, "amount")),
         total_returns       |-> SumSeq(Column(rows, "returns"))]

AggregateGroup(df, c, now) ==
    LET rows == SelectSeq(df, LAMBDA r : r.customer_id = c)
    IN  [customer_id         |-> c,
         days_since_purchase |-> DaysSince(now, MaxSeq(Column(rows, "transaction_date"))),
         purchase_count      |-> Len(rows),
         total_spend         |-> SumSeq(Column(rows, "amount")),
         avg_purchase        |-> Mean(Column(rows, "amount")),
         total_returns       |-> SumSeq(Column(rows, "returns"))]

GroupByAgg(df, now) ==
    LET keys == GroupKeys({df[i].customer_id : i \in DOMAIN df})
    IN  [i \in DOMAIN keys |-> AggregateGroup(df, keys[i], now)]

WithSegment(m, seg) ==
    [customer_id         |-> m.customer_id,
     days_since_purchase |-> m.days_since_purchase,
     purchase_count      |-> m.purchase_count,
     total_spend         |-> m.total_spend,
     avg_purchase        |-> m.avg_purchase,
     total_returns       |-> m.total_returns,
     segment             |-> seg]

\* the roster rows that match one metrics row, each giving an output row
MatchRows(m, roster) ==
    LET hits == SelectSeq(roster, LAMBDA r : r.customer_id = m.customer_id)
    IN  [i \in DOMAIN hits |-> WithSegment(m, hits[i].segment)]

\* variant: the merge without how='left' (pandas' default is the inner join,
\* as in churn_analyzers.py), which keeps matched rows only
RECURSIVE InnerMerge(_, _)
InnerMerge(metrics, roster) ==
    IF metrics = <<>> THEN <<>>
    ELSE MatchRows(Head(metrics), roster) \o InnerMerge(Tail(metrics), roster)

\* merge(..., on='customer_id', how='left')
RECURSIVE LeftMerge(_, _)
LeftMerge(metrics, roster) ==
    IF metrics = <<>> THEN <<>>
    ELSE LET hits == MatchRows(Head(metrics), roster)
         IN  (IF hits = <<>> THEN <<WithSegment(Head(metrics), NullSegment)>> ELSE hits)
             \o LeftMerge(Tail(metrics), roster)

AnalyzeCustomerBehavior(df, roster, now) == LeftMerge(GroupByAgg(df, now), roster)

(***************************************************************************)
(* identify_risk_factors                                                   *)
(***************************************************************************)
InactivityDays == 60

ReturnRateNum == 3

ReturnRateDen == 10

DecliningDays == 30

\* purchase_count < purchase_count.mean() * 0.5, the mean being total / n
BelowHalfMean(count, total, n) == count * 2 * n < total

\* variant: an average that defaults to 0 when no row matches
AvgSpendOrZero(rows) ==
    IF rows = <<>> THEN Num(0)
    ELSE RoundedQuotient(100 * SumSeq(Column(rows, "total_spend")), Len(rows))

\* np.round(df['total_spend'].mean(), 2) in cents; the mean of no rows is nan
AvgSpend(rows) ==
    IF rows = <<>> THEN NaN
    ELSE RoundedQuotient(100 * SumSeq(Column(rows, "total_spend")), Len(rows))

\* np.round(count / total_customers * 100, 1) in tenths of a percent
Percentage(count, total_customers) ==
    RoundedQuotient(10 * 100 * count, total_customers)

RiskFactor(factor, rows, total_customers) ==
    [factor     |-> factor,
     count      |-> Len(rows),
     percentage |-> Percentage(Len(rows), total_customers),
     avg_spend  |-> AvgSpend(rows)]

\* variant: the inactivity rule with an inclusive threshold
InactiveMaskInclusive(m) == m.days_since_purchase >= InactivityDays

InactiveMask(m) == m.days_since_purchase > InactivityDays

HighReturnsMask(m) == m.total_returns * ReturnRateDen > ReturnRateNum * m.purchase_count

IdentifyRiskFactors(metrics) ==
    LET total_customers == Len(metrics)
        purchases == SumSeq(Column(metrics, "purchase_count"))
        DecliningMask(m) ==
            /\ BelowHalfMean(m.purchase_count, purchases, total_customers)
            /\ m.days_since_purchase > DecliningDays
    IN  << RiskFactor("Customer Inactivity (60+ days)",
                      SelectSeq(metrics, InactiveMask), total_customers),
           RiskFactor("High Return Rate (>30%)",
                      SelectSeq(metrics, HighReturnsMask), total_customers),
           RiskFactor("Declining Purchase Frequency",
                      SelectSeq(metrics, DecliningMask), total_customers) >>

(***************************************************************************)
(* generate_segment_recommendations                                        *)
(***************************************************************************)
HighValueDays == 30

HighValueCost == 50

HighValueRetention == 70

MediumValueDays == 45

MediumValueCost == 20

MediumValueRetention == 50

NewCustomerPurchases == 3

NewCustomerDays == 30

NewCustomerCost == 30

NewCustomerRetention == 60

\* variant: the quantile without interpolation (interpolation='lower')
QuantileLower(values, qn, qd) ==
    LET v  == SortAsc(values)
        lo == (((Len(v) - 1) * qn) \div qd) + 1
    IN  qd * v[lo]

\* Series.quantile(qn / qd), linear interpolation between order statistics:
\* the quantile times qd, which is an integer.  Needs a non-empty series.
Quantile(values, qn, qd) ==
    LET v    == SortAsc(values)
        pos  == (Len(v) - 1) * qn
        lo   == (pos \div qd) + 1
        frac == pos % qd
    IN  IF frac = 0 THEN qd * v[lo]
        ELSE qd * v[lo] + frac * (v[lo + 1] - v[lo])

\* one recommendations.append({...})
Recommendation(segment, risk_level, rows, action, unit_cost, retention) ==
    [segment               |-> segment,
     risk_level            |-> risk_level,
     customer_count        |-> Len(rows),
     \* np.round(rows['total_spend'].sum(), 2), in cents
     total_revenue_at_risk |-> RoundHalfEven(100 * SumSeq(Column(rows, "total_spend")), 1),
     action                |-> action,
     estimated_cost        |-> Len(rows) * unit_cost,
     expected_retention    |-> retention]

\* variant: the append without its guard
AppendAlways(rows, rec) == <<rec>>

\* if len(rows) > 0: recommendations.append(rec)
AppendIfAny(rows, rec) == IF Len(rows) > 0 THEN <<rec>> ELSE <<>>

\* the three masks; a quantile of an empty series is nan, and every comparison
\* with it False
HighValueMask(metrics, m) ==
    /\ metrics # <<>>
    /\ 4 * m.total_spend > Quantile(Column(metrics, "total_spend"), 3, 4)
    /\ m.days_since_purchase > HighValueDays

\* variant: the medium-value rule without its upper bound
MedValueMaskNoUpper(metrics, m) ==
    /\ metrics # <<>>
    /\ 5 * m.total_spend >= Quantile(Column(metrics, "total_spend"), 2, 5)
    /\ m.days_since_purchase > MediumValueDays

\* Series.between(left, right) is inclusive on both sides
MedValueMask(metrics, m) ==
    /\ metrics # <<>>
    /\ 5 * m.total_spend >= Quantile(Column(metrics, "total_spend"), 2, 5)
    /\ 4 * m.total_spend <= Quantile(Column(metrics, "total_spend"), 3, 4)
    /\ m.days_since_purchase > MediumValueDays

NewCustomerMask(m) ==
    /\ m.purchase_count < NewCustomerPurchases
    /\ m.days_since_purchase > NewCustomerDays

HighValueRisk(metrics) == SelectSeq(metrics, LAMBDA m : HighValueMask(metrics, m))

MediumValueRisk(metrics) == SelectSeq(metrics, LAMBDA m : MedValueMask(metrics, m))

NewCustomerRisk(metrics) == SelectSeq(metrics, NewCustomerMask)

GenerateSegmentRecommendations(metrics) ==
    AppendIfAny(HighValueRisk(metrics),
        Recommendation("High-Value Customers", "High Priority", HighValueRisk(metrics),
                       "Immediate VIP outreach program",
                       HighValueCost, HighValueRetention))
    \o AppendIfAny(MediumValueRisk(metrics),
        Recommendation("Medium-Value Customers", "Medium Priority", MediumValueRisk(metrics),
                       "Personalized email campaign with offers",
                       MediumValueCost, MediumValueRetention))
    \o AppendIfAny(NewCustomerRisk(metrics),
        Recommendation("New Customers", "High Priority", NewCustomerRisk(metrics),
                       "Welcome back promotion with discount",
                       NewCustomerCost, NewCustomerRetention))

(***************************************************************************)
(* create_action_plan                                                      *)
(***************************************************************************)
\* total_revenue_at_risk * expected_retention.astype(float) / 100: cents times
\* percent is the saving in 1/10000 dollar
PotentialSavings(rec) == rec.total_revenue_at_risk * rec.expected_retention

\* variant: the return without the cost subtracted
RoiOfSavingsAlone(savings, cost) == RoundedQuotient(savings, 10 * cost)

\* np.round((potential_savings - estimated_cost) / estimated_cost * 100, 1),
\* in tenths of a percent
Roi(savings, cost) == RoundedQuotient(savings - 10000 * cost, 10 * cost)

ActionPlanEntry(rec) ==
    [segment               |-> rec.segment,
     risk_level            |-> rec.risk_level,
     customer_count        |-> rec.customer_count,
     total_revenue_at_risk |-> rec.total_revenue_at_risk,
     action                |-> rec.action,
     estimated_cost        |-> rec.estimated_cost,
     expected_retention    |-> rec.expected_retention,
     potential_savings     |-> PotentialSavings(rec),
     roi                   |-> Roi(PotentialSavings(rec), rec.estimated_cost)]

\* the order sort_values('roi', ascending=False) puts two values in: nan last
\* (na_position='last'), otherwise the greater first
RoiGreater(a, b) ==
    /\ a.k # "nan" /\ b.k # "nan"
    /\ \/ a.k = "inf" /\ b.k # "inf"
       \/ a.k = "num" /\ b.k = "-inf"
       \/ a.k = "num" /\ b.k = "num" /\ a.v > b.v

MayPrecede(a, b) == b.k = "nan" \/ (a.k # "nan" /\ ~RoiGreater(b, a))

Permutations(n) ==
    { p \in [1..n -> 1..n] : \A i, j \in 1..n : p[i] = p[j] => i = j }

\* variant: sort_values without ascending=False
SortValuesByRoiAscending(rows) ==
    { [i \in DOMAIN rows |-> rows[p[i]]] : p \in
        { q \in Permutations(Len(rows)) :
            \A i, j \in DOMAIN rows : i < j => MayPrecede(rows[q[j]].roi, rows[q[i]].roi) } }

\* sort_values with the default kind='quicksort', which numpy does not promise
\* to be stable: every arrangement in which no row precedes one that sorts
\* before it
SortValuesByRoi(rows) ==
    { [i \in DOMAIN rows |-> rows[p[i]]] : p \in
        { q \in Permutations(Len(rows)) :
            \A i, j \in DOMAIN rows : i < j => MayPrecede(rows[q[i]].roi, rows[q[j]].roi) } }

\* the frame before the sort: the copy with the two added columns
WithSavingsAndRoi(recs) == [i \in DOMAIN recs |-> ActionPlanEntry(recs[i])]

\* pd.DataFrame([]) has no columns: action_plan['total_revenue_at_risk'] raises
CreateActionPlanRaises(recs) == recs = <<>>

\* variant: the caller's frame when the columns are added without a copy
RecommendationsWithoutCopy(recs) == WithSavingsAndRoi(recs)

\* the caller's frame after the call: action_plan = recommendations.copy()
\* takes the new columns, and sort_values returns a new frame
RecommendationsAfterCopy(recs) == recs

CreateActionPlan(recs) == SortValuesByRoi(WithSavingsAndRoi(recs))

(***************************************************************************)
(* generate_summary                                                        *)
(***************************************************************************)
TopActions == 3

\* DataFrame.head(n)
HeadRows(df, n) == SubSeq(df, 1, IF Len(df) < n THEN Len(df) ELSE n)

PriorityAction(e) ==
    [segment |-> e.segment, action |-> e.action,
     estimated_cost |-> e.estimated_cost, roi |-> e.roi]

\* variant: the largest count, a total that never counts a customer twice
LargestRiskCount(risks) == MaxSeq(Column(risks, "count"))

\* int(risk_factors['count'].sum())
TotalCustomersAtRisk(risks) == SumSeq(Column(risks, "count"))

\* variant: the summary roi as the mean of the entries' roi
SummaryRoiAveraged(plan) ==
    IF plan # <<>> /\ \A i \in DOMAIN plan : plan[i].roi.k = "num"
    THEN RoundedQuotient(SumSeq([i \in DOMAIN plan |-> plan[i].roi.v]), Len(plan))
    ELSE NaN

\* np.round((potential_savings - total_cost) / total_cost * 100, 1) on the sums
SummaryRoi(plan) ==
    Roi(SumSeq(Column(plan, "potential_savings")), SumSeq(Column(plan, "estimated_cost")))

\* action_plan['total_revenue_at_risk'] raises KeyError on a frame without
\* columns, which is what pd.DataFrame([]) is; a 0-row frame that has the
\* columns does not raise.  Both are plans of no entries.
GenerateSummaryRaises(plan) == IF plan = <<>> THEN {TRUE, FALSE} ELSE {FALSE}

GenerateSummary(risks, plan) ==
    LET total_customers_at_risk == TotalCustomersAtRisk(risks)
        total_revenue_at_risk   == SumSeq(Column(plan, "total_revenue_at_risk"))
        total_cost              == SumSeq(Column(plan, "estimated_cost"))
        potential_savings       == SumSeq(Column(plan, "potential_savings"))
        top                     == HeadRows(plan, TopActions)
    IN  [total_customers_at_risk |-> total_customers_at_risk,
         total_revenue_at_risk   |-> RoundHalfEven(total_revenue_at_risk, 1),
         intervention_cost       |-> RoundHalfEven(100 * total_cost, 1),
         potential_savings       |-> RoundHalfEven(potential_savings, 100),
         roi                     |-> SummaryRoi(plan),
         priority_actions        |-> [i \in DOMAIN top |-> PriorityAction(top[i])]]

(***************************************************************************)
(* The run of main.py.                                                     *)
(***************************************************************************)
\* The aggregates of a group (count, sum, mean, max) do not depend on the order
\* of the ledger's rows, so the ledgers are taken up to that order: rows
\* ascending by customer_id, transaction_date, amount, returns.
RowRank(r) ==
    ((r.customer_id * 100 + r.transaction_date) * 1000 + r.amount) * 10 + r.returns

RowsSorted(df) ==
    \A i \in 1..(Len(df) - 1) : RowRank(df[i]) <= RowRank(df[i + 1])

Ledgers ==
    UNION { { df \in [1..n -> LedgerRows] : RowsSorted(df) } : n \in 0..MaxRows }

Init ==
    /\ transactions_df \in Ledgers
    /\ customer_df \in Rosters
    /\ clock = CHOOSE c \in Clocks : \A d \in Clocks : c <= d
    /\ done = {}
    /\ error = "none"
    /\ customer_metrics = <<>>
    /\ risk_factors = <<>>
    /\ recommendations = <<>>
    /\ action_plan = <<>>
    /\ summary = <<>>

RunEnded == "summary" \in done \/ error # "none"

\* time passes between two runs of the pipeline
Tick ==
    /\ done = {} \/ RunEnded
    /\ \E c \in Clocks : c > clock /\ clock' = c
    /\ UNCHANGED <<transactions_df, customer_df, done, error, customer_metrics,
                   risk_factors, recommendations, action_plan, summary>>

\* a run starts; a later run works on the same snapshot
analyze_customer_behavior ==
    /\ done = {} \/ RunEnded
    /\ customer_metrics' = AnalyzeCustomerBehavior(transactions_df, customer_df, clock)
    /\ done' = {"metrics"}
    /\ error' = "none"
    /\ risk_factors' = <<>>
    /\ recommendations' = <<>>
    /\ action_plan' = <<>>
    /\ summary' = <<>>
    /\ UNCHANGED <<transactions_df, customer_df, clock>>

identify_risk_factors ==
    /\ "metrics" \in done /\ "risk" \notin done /\ error = "none"
    /\ risk_factors' = IdentifyRiskFactors(customer_metrics)
    /\ done' = done \cup {"risk"}
    /\ UNCHANGED <<transactions_df, customer_df, clock, error, customer_metrics,
                   recommendations, action_plan, summary>>

generate_segment_recommendations ==
    /\ "metrics" \in done /\ "recs" \notin done /\ error = "none"
    /\ recommendations' = GenerateSegmentRecommendations(customer_metrics)
    /\ done' = done \cup {"recs"}
    /\ UNCHANGED <<transactions_df, customer_df, clock, error, customer_metrics,
                   risk_factors, action_plan, summary>>

create_action_plan ==
    /\ "recs" \in done /\ "plan" \notin done /\ error = "none"
    /\ IF CreateActionPlanRaises(recommendations)
       THEN /\ error' = "KeyError"
            /\ UNCHANGED <<done, action_plan>>
       ELSE /\ action_plan' \in CreateActionPlan(recommendations)
            /\ done' = done \cup {"plan"}
            /\ UNCHANGED error
    /\ recommendations' = RecommendationsAfterCopy(recommendations)
    /\ UNCHANGED <<transactions_df, customer_df, clock, customer_metrics,
                   risk_factors, summary>>

generate_summary ==
    /\ "risk" \in done /\ "plan" \in done /\ "summary" \notin done /\ error = "none"
    /\ \E raises \in GenerateSummaryRaises(action_plan) :
           IF raises
           THEN /\ error' = "KeyError"
                /\ UNCHANGED <<done, summary>>
           ELSE /\ summary' = GenerateSummary(risk_factors, action_plan)
                /\ done' = done \cup {"summary"}
                /\ UNCHANGED error
    /\ UNCHANGED <<transactions_df, customer_df, clock, customer_metrics,
                   risk_factors, recommendations, action_plan>>

Next ==
    \/ Tick
    \/ analyze_customer_behavior
    \/ identify_risk_factors
    \/ generate_segment_recommendations
    \/ create_action_plan
    \/ generate_summary

Spec == Init /\ [][Next]_vars

(***************************************************************************)
(* create_action_plan called on recommendation rows the caller built        *)
(* itself, an estimated_cost of 0 among them.                               *)
(***************************************************************************)
MaxForcedCount == 2

ForcedRevenues == {0, 20000, 50000}

ForcedRows(segment, risk_level, action, unit_cost, retention) ==
    {<<>>} \cup
    { << [segment               |-> segment,
          risk_level            |-> risk_level,
          customer_count        |-> n,
          total_revenue_at_risk |-> rev,
          action                |-> action,
          estimated_cost        |-> n * unit_cost,
          expected_retention    |-> retention] >> :
        n \in 0..MaxForcedCount, rev \in ForcedRevenues }

ForcedRecommendations ==
    { h \o m \o n :
        h \in ForcedRows("High-Value Customers", "High Priority",
                         "Immediate VIP outreach program",
                         HighValueCost, HighValueRetention),
        m \in ForcedRows("Medium-Value Customers", "Medium Priority",
                         "Personalized email campaign with offers",
                         MediumValueCost, MediumValueRetention),
        n \in ForcedRows("New Customers", "High Priority",
                         "Welcome back promotion with discount",
                         NewCustomerCost, NewCustomerRetention) }

InitForced ==
    /\ transactions_df = <<>>
    /\ customer_df = <<>>
    /\ clock = CHOOSE c \in Clocks : \A d \in Clocks : c <= d
    /\ done = {"recs"}
    /\ error = "none"
    /\ customer_metrics = <<>>
    /\ risk_factors = <<>>
    /\ recommendations \in ForcedRecommendations
    /\ action_plan = <<>>
    /\ summary = <<>>

NextForced == create_action_plan

SpecForced == InitForced /\ [][NextForced]_vars

(***************************************************************************)
(* generate_summary called on a plan its caller built: a plan that         *)
(* create_action_plan returns for caller-built recommendations, or a plan  *)
(* of no entries.                                                          *)
(***************************************************************************)
SuppliedPlans ==
    {<<>>} \cup UNION { CreateActionPlan(recs) : recs \in ForcedRecommendations \ {<<>>} }

InitSummary ==
    /\ transactions_df = <<>>
    /\ customer_df = <<>>
    /\ clock = CHOOSE c \in Clocks : \A d \in Clocks : c <= d
    /\ done = {"risk", "plan"}
    /\ error = "none"
    /\ customer_metrics = <<>>
    /\ risk_factors = IdentifyRiskFactors(<<>>)
    /\ recommendations = <<>>
    /\ action_plan \in SuppliedPlans
    /\ summary = <<>>

NextSummary == generate_summary

SpecSummary == InitSummary /\ [][NextSummary]_vars

(***************************************************************************)
(* analyze_customer_behavior and identify_risk_factors on ledgers where a  *)
(* customer has up to MaxPurchaseCount transactions: purchase_count is far *)
(* enough below the mean only when another customer bought several times   *)
(* more.  A customer's rows share one date and one amount; the last row    *)
(* may carry a return.  The analysis may run before a row's date.          *)
(***************************************************************************)
MaxPurchaseCount == 4

RepeatAmount == CHOOSE a \in Amounts : \A b \in Amounts : a <= b

RepeatBuyers ==
    [count : 1..MaxPurchaseCount, transaction_date : Dates, returns : ReturnCounts]

RepeatRows(c, buyer) ==
    [i \in 1..buyer.count |->
        [customer_id      |-> c,
         transaction_date |-> buyer.transaction_date,
         amount           |-> RepeatAmount,
         returns          |-> IF i = buyer.count THEN buyer.returns ELSE 0]]

RECURSIVE RepeatLedgerFrom(_, _)
RepeatLedgerFrom(buyers, c) ==
    IF c > Len(buyers) THEN <<>>
    ELSE RepeatRows(c, buyers[c]) \o RepeatLedgerFrom(buyers, c + 1)

RepeatLedgers ==
    UNION { { RepeatLedgerFrom(buyers, 1) : buyers \in [1..n -> RepeatBuyers] } :
            n \in 1..Cardinality(CustomerIds) }

\* the instants of a run: those of Clocks, and one that precedes the latest
\* transaction date (a ledger holding a row dated after the analysis)
RepeatClocks == Clocks \cup { d - 1 : d \in Dates \ {0} }

InitRepeat ==
    /\ transactions_df \in RepeatLedgers
    /\ customer_df \in Rosters
    /\ clock \in RepeatClocks
    /\ done = {}
    /\ error = "none"
    /\ customer_metrics = <<>>
    /\ risk_factors = <<>>
    /\ recommendations = <<>>
    /\ action_plan = <<>>
    /\ summary = <<>>

NextRepeat ==
    \/ analyze_customer_behavior
    \/ identify_risk_factors

SpecRepeat == InitRepeat /\ [][NextRepeat]_vars

(***************************************************************************)
(* Properties.                                                             *)
(***************************************************************************)
LedgerIds == { transactions_df[i].customer_id : i \in DOMAIN transactions_df }

RosterIds == { customer_df[i].customer_id : i \in DOMAIN customer_df }

MetricsOf(c) == SelectSeq(customer_metrics, LAMBDA m : m.customer_id = c)

\* C1: every customer_id with at least one ledger row appears in
\* customer_metrics, and a customer with no roster entry appears with a null
\* segment.
C1_NoCustomerDropped ==
    "metrics" \in done =>
        \A c \in LedgerIds :
            /\ MetricsOf(c) # <<>>
            /\ c \notin RosterIds =>
                   \A i \in DOMAIN MetricsOf(c) : MetricsOf(c)[i].segment = NullSegment

C1_Witness ==
    /\ "metrics" \in done
    /\ \E c \in LedgerIds : c \notin RosterIds /\ MetricsOf(c) # <<>>
    /\ \E c \in LedgerIds : c \in RosterIds

\* C2: a run of analyze_customer_behavior on the unchanged snapshot yields the
\* days_since_purchase (the customer_metrics) the run before it yielded,
\* whatever the wall clock reads at each run.
C2_RerunYieldsSameMetrics ==
    [][("metrics" \in done /\ done' = {"metrics"})
          => customer_metrics' = customer_metrics]_vars

\* C3: with a ledger of zero rows analyze_customer_behavior fails with
\* EmptyInputError: it returns no customer_metrics and no later stage runs.
C3_EmptyLedgerRaises ==
    transactions_df = <<>> =>
        /\ done = {}
        /\ error \in {"none", "EmptyInputError"}

\* the rows of a frame whose estimated_cost is positive
PositiveCost(rows) == SelectSeq(rows, LAMBDA r : r.estimated_cost > 0)

\* C4: a recommendation of estimated_cost 0 beside others of positive cost is
\* reported as 'ROI undefined' for that entry only: the plan does not fail, the
\* zero-cost entry carries an undefined roi, and the other entries carry the
\* potential_savings and roi they have in the plan of the other entries alone.
C4_ZeroCostReportedUndefined ==
    (/\ "plan" \in done \/ error # "none"
     /\ PositiveCost(recommendations) # <<>>
     /\ PositiveCost(recommendations) # recommendations) =>
        /\ error = "none"
        /\ \A i \in DOMAIN action_plan :
               IF action_plan[i].estimated_cost = 0
               THEN action_plan[i].roi = NaN
               ELSE \E p \in CreateActionPlan(PositiveCost(recommendations)) :
                        \E j \in DOMAIN p : p[j] = action_plan[i]

\* C5: create_action_plan applied to zero recommendations returns an empty
\* action plan without failing, and the plan has one row per recommendation,
\* between 0 and 3.
C5_EmptyRecommendationsGiveEmptyPlan ==
    /\ ("recs" \in done /\ recommendations = <<>>) => error = "none"
    /\ "plan" \in done =>
           /\ Len(action_plan) = Len(recommendations)
           /\ Len(action_plan) \in 0..3

RowsOfSegment(rows, segment) == SelectSeq(rows, LAMBDA r : r.segment = segment)

\* C6: each rule gives a Recommendation row if and only if at least one customer
\* matches it, and every row has customer_count >= 1 and estimated_cost > 0.
C6_RowIffRuleMatches ==
    "recs" \in done =>
        /\ Len(RowsOfSegment(recommendations, "High-Value Customers")) =
               (IF \E i \in DOMAIN customer_metrics :
                       HighValueMask(customer_metrics, customer_metrics[i])
                THEN 1 ELSE 0)
        /\ Len(RowsOfSegment(recommendations, "Medium-Value Customers")) =
               (IF \E i \in DOMAIN customer_metrics :
                       MedValueMask(customer_metrics, customer_metrics[i])
                THEN 1 ELSE 0)
        /\ Len(RowsOfSegment(recommendations, "New Customers")) =
               (IF \E i \in DOMAIN customer_metrics : NewCustomerMask(customer_metrics[i])
                THEN 1 ELSE 0)
        /\ \A i \in DOMAIN recommendations :
               /\ recommendations[i].segment \in
                      {"High-Value Customers", "Medium-Value Customers", "New Customers"}
               /\ recommendations[i].customer_count >= 1
               /\ recommendations[i].estimated_cost > 0

C6_Witness ==
    /\ "recs" \in done
    /\ customer_metrics # <<>>
    /\ Len(recommendations) = 2
    /\ \A i \in DOMAIN customer_metrics :
           ~MedValueMask(customer_metrics, customer_metrics[i])

\* C7: for non-empty customer_metrics identify_risk_factors returns exactly the
\* three rows Inactivity, High Returns, Declining Frequency, and a row whose
\* rule matches no customer has count 0 and avg_spend nan, never 0.
C7_ThreeRowsUndefinedAverage ==
    ("risk" \in done /\ customer_metrics # <<>>) =>
        /\ Column(risk_factors, "factor") =
               << "Customer Inactivity (60+ days)", "High Return Rate (>30%)",
                  "Declining Purchase Frequency" >>
        /\ risk_factors[1].count =
               Cardinality({ i \in DOMAIN customer_metrics :
                                 customer_metrics[i].days_since_purchase > 60 })
        /\ \A i \in DOMAIN risk_factors :
               IF risk_factors[i].count = 0
               THEN risk_factors[i].avg_spend = NaN
               ELSE risk_factors[i].avg_spend.k = "num"

C7_Witness ==
    /\ "risk" \in done
    /\ customer_metrics # <<>>
    /\ risk_factors[1].count = 0
    /\ risk_factors[2].count > 0

\* the recommendation columns of an action-plan entry
RecommendationOf(e) ==
    [segment               |-> e.segment,
     risk_level            |-> e.risk_level,
     customer_count        |-> e.customer_count,
     total_revenue_at_risk |-> e.total_revenue_at_risk,
     action                |-> e.action,
     estimated_cost        |-> e.estimated_cost,
     expected_retention    |-> e.expected_retention]

\* C8: the action plan is ordered by roi descending, a.roi >= b.roi for every
\* adjacent pair, and holds exactly the input recommendations.
C8_PlanSortedByRoiDescending ==
    "plan" \in done =>
        /\ \A i \in 1..(Len(action_plan) - 1) :
               /\ action_plan[i].roi.k = "num"
               /\ action_plan[i + 1].roi.k = "num"
               /\ action_plan[i].roi.v >= action_plan[i + 1].roi.v
        /\ Len(action_plan) = Len(recommendations)
        /\ \E p \in Permutations(Len(action_plan)) :
               \A i \in DOMAIN action_plan :
                   RecommendationOf(action_plan[i]) = recommendations[p[i]]

C8_Witness ==
    /\ "plan" \in done
    /\ Len(action_plan) = 3
    /\ action_plan[1].roi.v > action_plan[3].roi.v
    /\ RecommendationOf(action_plan[1]) # recommendations[1]

RuleOrder(segment) ==
    CASE segment = "High-Value Customers"   -> 1
      [] segment = "Medium-Value Customers" -> 2
      [] segment = "New Customers"          -> 3

\* C9: two action-plan entries of equal roi appear in their input order,
\* High-Value before Medium-Value before New-customer.
C9_TiesKeepRuleOrder ==
    "plan" \in done =>
        \A i, j \in DOMAIN action_plan :
            (i < j /\ action_plan[i].roi = action_plan[j].roi) =>
                RuleOrder(action_plan[i].segment) < RuleOrder(action_plan[j].segment)

Abs(x) == IF x < 0 THEN -x ELSE x

\* C10: for every entry with estimated_cost > 0, potential_savings is
\* total_revenue_at_risk * expected_retention / 100 and roi is
\* (potential_savings - estimated_cost) / estimated_cost * 100 to the nearest
\* tenth; one High-Value customer of total_spend 500 gives estimated_cost 50,
\* potential_savings 350 and roi 600.0.
C10_SavingsAndRoiFormulas ==
    "plan" \in done =>
        \A i \in DOMAIN action_plan :
            LET e == action_plan[i]
                \* the exact roi in tenths of a percent is exact_num / exact_den
                exact_num == e.potential_savings - 10000 * e.estimated_cost
                exact_den == 10 * e.estimated_cost
            IN  e.estimated_cost > 0 =>
                    /\ e.potential_savings = e.total_revenue_at_risk * e.expected_retention
                    /\ e.roi.k = "num"
                    /\ 2 * Abs(exact_num - e.roi.v * exact_den) <= exact_den
                    /\ (e.segment = "High-Value Customers" /\ e.customer_count = 1
                            /\ e.total_revenue_at_risk = 50000) =>
                           /\ e.estimated_cost = 50
                           /\ e.potential_savings = 3500000
                           /\ e.roi = Num(6000)

C10_Witness ==
    /\ "plan" \in done
    /\ \E i \in DOMAIN action_plan :
           /\ action_plan[i].segment = "High-Value Customers"
           /\ action_plan[i].customer_count = 1
           /\ action_plan[i].total_revenue_at_risk = 50000
           /\ action_plan[i].roi = Num(6000)

\* the k-th smallest of a series: the value with fewer than k values below it
\* and at least k values not above it
OrderStatistic(values, k) ==
    CHOOSE x \in { values[i] : i \in DOMAIN values } :
        /\ Cardinality({ i \in DOMAIN values : values[i] < x }) < k
        /\ Cardinality({ i \in DOMAIN values : values[i] <= x }) >= k

\* the total_spend quantile qn / qd over all of customer_metrics, times qd:
\* at the position (n - 1) * qn / qd between the order statistics
SpendQuantileTimes(qn, qd) ==
    LET spend == Column(customer_metrics, "total_spend")
        h     == (Len(spend) - 1) * qn
        below == OrderStatistic(spend, (h \div qd) + 1)
        above == IF h % qd = 0 THEN below ELSE OrderStatistic(spend, (h \div qd) + 2)
    IN  qd * below + (h % qd) * (above - below)

HighValueCustomers ==
    LET q75 == SpendQuantileTimes(3, 4)
    IN  { i \in DOMAIN customer_metrics :
            /\ customer_metrics[i].days_since_purchase > 30
            /\ 4 * customer_metrics[i].total_spend > q75 }

MediumValueCustomers ==
    LET q40 == SpendQuantileTimes(2, 5)
        q75 == SpendQuantileTimes(3, 4)
    IN  { i \in DOMAIN customer_metrics :
            /\ customer_metrics[i].days_since_purchase > 45
            /\ 5 * customer_metrics[i].total_spend >= q40
            /\ 4 * customer_metrics[i].total_spend <= q75 }

NewCustomers ==
    { i \in DOMAIN customer_metrics :
        /\ customer_metrics[i].purchase_count < 3
        /\ customer_metrics[i].days_since_purchase > 30 }

RowMatchesRule(r, customers, unit_cost, retention) ==
    /\ r.customer_count = Cardinality(customers)
    /\ r.estimated_cost = r.customer_count * unit_cost
    /\ r.expected_retention = retention

\* C11: every emitted Recommendation counts exactly the customers of its rule
\* (High-Value: total_spend > Q75 and days_since_purchase > 30, cost 50,
\* retention 70; Medium-Value: Q40 <= total_spend <= Q75 and
\* days_since_purchase > 45, cost 20, retention 50; New-customer:
\* purchase_count < 3 and days_since_purchase > 30, cost 30, retention 60),
\* Q40 and Q75 being the linearly interpolated quantiles of total_spend over
\* all customers, and estimated_cost = customer_count * per-customer cost.
C11_RecommendationsMatchRules ==
    "recs" \in done =>
        \A i \in DOMAIN recommendations :
            LET r == recommendations[i]
            IN  CASE r.segment = "High-Value Customers" ->
                         RowMatchesRule(r, HighValueCustomers, 50, 70)
                  [] r.segment = "Medium-Value Customers" ->
                         RowMatchesRule(r, MediumValueCustomers, 20, 50)
                  [] r.segment = "New Customers" ->
                         RowMatchesRule(r, NewCustomers, 30, 60)
                  [] OTHER -> FALSE

\* all three rules emit a row while the 75% quantile falls strictly between
\* two customers' total_spend, so that the interpolation decides the rule
C11_Witness ==
    /\ "recs" \in done
    /\ Len(recommendations) = 3
    /\ \A i \in DOMAIN customer_metrics :
           4 * customer_metrics[i].total_spend # SpendQuantileTimes(3, 4)
    /\ \E i \in DOMAIN customer_metrics :
           /\ 4 * customer_metrics[i].total_spend < SpendQuantileTimes(3, 4)
           /\ 4 * customer_metrics[i].total_spend + 400 > SpendQuantileTimes(3, 4)

InactiveCustomers ==
    { i \in DOMAIN customer_metrics : customer_metrics[i].days_since_purchase > 60 }

HighReturnCustomers ==
    { i \in DOMAIN customer_metrics :
        10 * customer_metrics[i].total_returns > 3 * customer_metrics[i].purchase_count }

\* purchase_count < 0.5 * (sum of purchase_count / number of customers)
DecliningCustomers ==
    { i \in DOMAIN customer_metrics :
        /\ 2 * Len(customer_metrics) * customer_metrics[i].purchase_count
               < SumSeq(Column(customer_metrics, "purchase_count"))
        /\ customer_metrics[i].days_since_purchase > 30 }

RiskCountsMatch ==
    /\ Len(risk_factors) = 3
    /\ risk_factors[1].count = Cardinality(InactiveCustomers)
    /\ risk_factors[2].count = Cardinality(HighReturnCustomers)
    /\ risk_factors[3].count = Cardinality(DecliningCustomers)

\* C12 as stated: the counts match the rules and percentage is exactly
\* count / total_customers * 100 (tenths of a percent: 1000 * count / total).
C12_PercentageExact ==
    "risk" \in done /\ customer_metrics # <<>> =>
        /\ RiskCountsMatch
        /\ \A i \in DOMAIN risk_factors :
               /\ risk_factors[i].percentage.k = "num"
               /\ risk_factors[i].percentage.v * Len(customer_metrics)
                      = 1000 * risk_factors[i].count

\* C12: each count of identify_risk_factors is the number of customers that
\* satisfy the rule over all of customer_metrics (Inactivity: days > 60;
\* High Returns: total_returns / purchase_count > 0.3; Declining Frequency:
\* purchase_count < half the mean purchase_count and days > 30), and
\* percentage is count / total_customers * 100 rounded to 1 decimal, i.e.
\* within 0.05 of the exact value.
C12_CountsAndRoundedPercentage ==
    "risk" \in done /\ customer_metrics # <<>> =>
        /\ RiskCountsMatch
        /\ \A i \in DOMAIN risk_factors :
               /\ risk_factors[i].percentage.k = "num"
               /\ 2 * Abs(risk_factors[i].percentage.v * Len(customer_metrics)
                            - 1000 * risk_factors[i].count)
                      <= Len(customer_metrics)

\* three customers, every rule matches one of them and misses another, and
\* one customer in three is a percentage that needs rounding
C12_Witness ==
    /\ "risk" \in done
    /\ Len(customer_metrics) = 3
    /\ \E i \in DOMAIN risk_factors :
           risk_factors[i].count = 1 /\ risk_factors[i].percentage = Num(333)
    /\ \A rule \in {InactiveCustomers, HighReturnCustomers, DecliningCustomers} :
           rule # {} /\ rule # DOMAIN customer_metrics
    /\ \E i \in DOMAIN customer_metrics :
           /\ i \notin DecliningCustomers
           /\ customer_metrics[i].days_since_purchase > 30

\* C13: every row of customer_metrics has days_since_purchase >= 0, whatever
\* the transaction dates are relative to the instant of the analysis.
C13_DaysSincePurchaseNonNegative ==
    "metrics" \in done =>
        \A i \in DOMAIN customer_metrics : customer_metrics[i].days_since_purchase >= 0

LedgerRowsOf(c) == { i \in DOMAIN transactions_df : transactions_df[i].customer_id = c }

\* the sum of one column over a set of ledger rows
RECURSIVE LedgerSum(_, _)
LedgerSum(rows, name) ==
    IF rows = {} THEN 0
    ELSE LET i == CHOOSE j \in rows : TRUE
         IN  transactions_df[i][name] + LedgerSum(rows \ {i}, name)

\* C14: customer_metrics holds exactly one row per distinct customer_id of
\* the ledger, and in that row purchase_count is the customer's number of
\* ledger rows (at least 1), total_spend the sum of their amounts,
\* total_returns the sum of their returns, and avg_purchase * purchase_count
\* = total_spend (avg_purchase is kept as a fraction).
C14_OneRowPerCustomer ==
    "metrics" \in done =>
        /\ { customer_metrics[i].customer_id : i \in DOMAIN customer_metrics } = LedgerIds
        /\ Len(customer_metrics) = Cardinality(LedgerIds)
        /\ \A i \in DOMAIN customer_metrics :
               LET m == customer_metrics[i]
               IN  /\ m.purchase_count = Cardinality(LedgerRowsOf(m.customer_id))
                   /\ m.purchase_count >= 1
                   /\ m.total_spend = LedgerSum(LedgerRowsOf(m.customer_id), "amount")
                   /\ m.total_returns = LedgerSum(LedgerRowsOf(m.customer_id), "returns")
                   /\ m.avg_purchase[1] * m.purchase_count
                          = m.total_spend * m.avg_purchase[2]

\* two customers, one of them with two purchases of different amounts on the
\* same day
C14_Witness ==
    /\ "metrics" \in done
    /\ Len(customer_metrics) = 2
    /\ \E i, j \in DOMAIN transactions_df :
           /\ transactions_df[i].customer_id = transactions_df[j].customer_id
           /\ transactions_df[i].transaction_date = transactions_df[j].transaction_date
           /\ transactions_df[i].amount < transactions_df[j].amount
    /\ \E i \in DOMAIN customer_metrics : customer_metrics[i].purchase_count = 2

\* the plan's total of one column, added up entry by entry
RECURSIVE PlanTotal(_, _)
PlanTotal(name, n) ==
    IF n = 0 THEN 0 ELSE action_plan[n][name] + PlanTotal(name, n - 1)

RoiFromPlanTotals ==
    LET exact_num == PlanTotal("potential_savings", Len(action_plan))
                         - 10000 * PlanTotal("estimated_cost", Len(action_plan))
        exact_den == 10 * PlanTotal("estimated_cost", Len(action_plan))
    IN  /\ summary.roi.k = "num"
        /\ 2 * Abs(exact_num - summary.roi.v * exact_den) <= exact_den

\* the summary roi is exactly the mean of the entries' roi
RoiIsAverageOfEntries ==
    /\ \A i \in DOMAIN action_plan : action_plan[i].roi.k = "num"
    /\ summary.roi.k = "num"
    /\ summary.roi.v * Len(action_plan)
           = SumSeq([i \in DOMAIN action_plan |-> action_plan[i].roi.v])

EntriesDifferInCost ==
    \E i, j \in DOMAIN action_plan :
        action_plan[i].estimated_cost # action_plan[j].estimated_cost

\* C15 as stated: the summary roi is the rounded roi of the plan totals, and
\* it differs from the average of the entries' roi whenever two entries have
\* different costs.
C15_DiffersWheneverCostsDiffer ==
    "summary" \in done =>
        /\ RoiFromPlanTotals
        /\ EntriesDifferInCost => ~RoiIsAverageOfEntries

\* C15: the summary roi is recomputed from the plan totals,
\* (sum of potential_savings - sum of estimated_cost) / sum of estimated_cost
\* * 100 rounded to 1 decimal; it is not computed as the average of the
\* entries' roi, from which it can differ when entries have different costs.
C15_RoiFromTotals ==
    "summary" \in done => RoiFromPlanTotals

\* a summary whose roi is not the average of its entries' roi
C15_Witness ==
    /\ "summary" \in done
    /\ Len(action_plan) >= 2
    /\ EntriesDifferInCost
    /\ RoiFromPlanTotals
    /\ ~RoiIsAverageOfEntries

\* C16: summary.total_customers_at_risk is exactly the sum of the count
\* fields of the three RiskFactor rows, with no deduplication: a customer
\* matching k rules is counted k times.
C16_TotalIsSumOfCounts ==
    "summary" \in done =>
        /\ Len(risk_factors) = 3
        /\ summary.total_customers_at_risk
               = risk_factors[1].count + risk_factors[2].count + risk_factors[3].count

\* a customer matching two rules makes the total exceed the number of customers
C16_Witness ==
    /\ "summary" \in done
    /\ summary.total_customers_at_risk > Len(customer_metrics)
    /\ \E i \in DOMAIN customer_metrics :
           InactiveMask(customer_metrics[i]) /\ HighReturnsMask(customer_metrics[i])

\* C17: the summary's top actions are the first min(3, n) rows of the plan of
\* n entries, in plan order, and generate_summary does not fail when the plan
\* has fewer than 3 entries, 0 included.
C17_TopActionsWithoutFailing ==
    /\ "plan" \in done /\ Len(action_plan) < 3 => error = "none"
    /\ "summary" \in done =>
           LET n == IF Len(action_plan) < 3 THEN Len(action_plan) ELSE 3
           IN  /\ Len(summary.priority_actions) = n
               /\ \A i \in 1..n :
                      /\ summary.priority_actions[i].segment = action_plan[i].segment
                      /\ summary.priority_actions[i].roi = action_plan[i].roi

StageReturns(stage) == stage \in done' /\ stage \notin done

\* C18: no stage mutates its input.  identify_risk_factors and
\* generate_segment_recommendations leave customer_metrics unchanged, so in
\* whichever order they run their outputs are those computed from the same
\* customer_metrics; create_action_plan leaves recommendations unchanged;
\* generate_summary leaves risk_factors and action_plan unchanged.
C18_NoStageMutatesInput ==
    [][ /\ (StageReturns("risk") \/ StageReturns("recs")) =>
               /\ customer_metrics' = customer_metrics
               /\ "risk" \in done' => risk_factors' = IdentifyRiskFactors(customer_metrics')
               /\ "recs" \in done' =>
                      recommendations' = GenerateSegmentRecommendations(customer_metrics')
        /\ StageReturns("plan") => recommendations' = recommendations
        /\ StageReturns("summary") =>
               /\ risk_factors' = risk_factors
               /\ action_plan' = action_plan ]_vars

\* all four stages have run on a ledger that gives recommendations and
\* matches a risk rule
C18_Witness ==
    /\ done = {"metrics", "risk", "recs", "plan", "summary"}
    /\ Len(recommendations) >= 2
    /\ \E i \in DOMAIN risk_factors : risk_factors[i].count > 0

CountOfSegment(segment) ==
    LET rows == RowsOfSegment(recommendations, segment)
    IN  IF rows = <<>> THEN 0 ELSE rows[1].customer_count

\* C19: the High-Value and Medium-Value rules never select the same
\* customer (hence a customer counted in two of the three recommendations is
\* counted in the New-customer one), and customer_count(High-Value) +
\* customer_count(Medium-Value) never exceeds the number of customers.
C19_HighAndMediumValueDisjoint ==
    "recs" \in done =>
        /\ \A i \in DOMAIN customer_metrics :
               LET high   == HighValueMask(customer_metrics, customer_metrics[i])
                   medium == MedValueMask(customer_metrics, customer_metrics[i])
                   new    == NewCustomerMask(customer_metrics[i])
               IN  /\ ~(high /\ medium)
                   /\ ((high /\ medium) \/ (high /\ new) \/ (medium /\ new)) => new
        /\ CountOfSegment("High-Value Customers") + CountOfSegment("Medium-Value Customers")
               <= Len(customer_metrics)

\* both rules emit a row, and a customer of the High-Value row is counted in
\* the New-customer row too
C19_Witness ==
    /\ "recs" \in done
    /\ CountOfSegment("High-Value Customers") > 0
    /\ CountOfSegment("Medium-Value Customers") > 0
    /\ HighValueCustomers \cap NewCustomers # {}
    /\ \E i \in HighValueCustomers : customer_metrics[i].days_since_purchase > 45

====
